---- MODULE Spec2Model ----
(***************************************************************************)
(* The DNFileVault download scripts (public_scripts/python_scripts) as one *)
(* state machine.  The repository holds several variants of the same sync  *)
(* engine; the variable `script` says which of them is running, and every  *)
(* step is translated from that script's code.                             *)
(***************************************************************************)
EXTENDS Integers, Sequences, FiniteSets, TLC

\* ------------------------------------------------------------------ bounds

\* chunks in one response body (iter_content yields this many chunks)
NChunks == 2
\* invocations of the script on the same output directory (cron re-runs)
MaxRuns == 2

\* ----------------------------------------------------------------- scripts

DISC    == "download_allfiles_linux_discovery"
LINUX   == "download_all_linux"
PY      == "download_all_python"
GROUPS  == "download_groups_linux"
EOD     == "download_eodlevel2"
FORTIER == "dnfilevault_download_only_eodLevel2_fortier"
\* the Windows twin of DISC, and the daily variant of GROUPS that keeps a count
WIN     == "download_allfiles_windows_discovery"
DAILY   == "download_daily_purchases"

Scripts == {DISC, LINUX, PY, GROUPS, EOD, FORTIER}
AllScripts == Scripts \cup {WIN, DAILY}

\* scripts whose fetch reads cloud_share_link and tries the CDN first
UsesCdn(s) == s \in {DISC, WIN, LINUX, PY, EOD}
\* scripts that walk the purchases before the groups
HasPurchases(s) == s \in {DISC, WIN, LINUX, PY}
\* scripts that handle the one group named eodLevel2
SingleGroup(s) == s \in {EOD, FORTIER}
\* scripts that start with endpoint discovery and a health probe
HasDiscovery(s) == s \in {DISC, WIN}

\* ------------------------------------------------------- the remote vault

None == "None"

\* created_at texts, character by character
\* "2024-01-11 08:30:00"
StampAfter == <<"2", "0", "2", "4", "-", "0", "1", "-", "1", "1", " ",
                "0", "8", ":", "3", "0", ":", "0", "0">>
\* "2024-01-10 00:00:00"
StampAtCutoff == <<"2", "0", "2", "4", "-", "0", "1", "-", "1", "0", " ",
                   "0", "0", ":", "0", "0", ":", "0", "0">>
\* "2024-01-09 23:59:59"
StampBefore == <<"2", "0", "2", "4", "-", "0", "1", "-", "0", "9", " ",
                 "2", "3", ":", "5", "9", ":", "5", "9">>
\* "2024-01-10T00:00:00": not in the format of the database
StampIso == <<"2", "0", "2", "4", "-", "0", "1", "-", "1", "0", "T",
              "0", "0", ":", "0", "0", ":", "0", "0">>

\* file records as the listing calls return them; a name is a sequence of
\* characters
fA == [id |-> "fA", uuid_filename |-> None, display_name |-> <<"a">>,
       cloud_share_link |-> "r2/a", created_at |-> StampAfter]
fB == [id |-> "fB", uuid_filename |-> "uB", display_name |-> <<"b">>,
       cloud_share_link |-> "r2/b", created_at |-> StampAtCutoff]
fC == [id |-> "fC", uuid_filename |-> "uC", display_name |-> <<"c", ":">>,
       cloud_share_link |-> None, created_at |-> StampBefore]
fD == [id |-> "fD", uuid_filename |-> "uD", display_name |-> <<"d">>,
       cloud_share_link |-> None, created_at |-> StampIso]

\* two records of one group under the same display name
fT1 == [id |-> "fT1", uuid_filename |-> "uT1", display_name |-> <<"t">>,
        cloud_share_link |-> "r2/t1", created_at |-> StampAfter]
fT2 == [id |-> "fT2", uuid_filename |-> "uT2", display_name |-> <<"t">>,
        cloud_share_link |-> None, created_at |-> StampAfter]
\* records named "t.part" and "t.tmp"
fP == [id |-> "fP", uuid_filename |-> "uP", display_name |-> <<"t", ".part">>,
       cloud_share_link |-> None, created_at |-> StampAfter]
fQ == [id |-> "fQ", uuid_filename |-> "uQ", display_name |-> <<"t", ".tmp">>,
       cloud_share_link |-> None, created_at |-> StampAfter]
\* a record with neither a display_name nor a uuid_filename
fN == [id |-> "fN", uuid_filename |-> None, display_name |-> <<>>,
       cloud_share_link |-> None, created_at |-> StampAfter]

p1 == [type |-> "purchases", id |-> "p1", name |-> "prod"]
g1 == [type |-> "groups", id |-> "g1", name |-> "eodLevel2"]
g2 == [type |-> "groups", id |-> "g2", name |-> "other"]

Collections == {p1, g1, g2}
CollIds == {c.id : c \in Collections}

\* what the run meets: the vault's catalogue, how the vault words its
\* errors, and whether another process works in the output directory
VARIABLE world

\* "plain" is the standard vault without the group g2, whose one record is
\* there for its created_at
Worlds == {"standard", "plain", "twins", "suffix", "nameless", "race", "error_body",
           "overlap"}

RemotePurchases == IF world \in {"standard", "plain"} THEN <<p1>> ELSE <<>>
RemoteGroups == IF world = "standard" THEN <<g1, g2>> ELSE <<g1>>

\* the files listing of a collection in each world
Catalogue(w, cid) ==
    CASE w \in {"standard", "plain"} /\ cid = "p1" -> <<fA>>
      [] w \in {"standard", "plain"} /\ cid = "g1" -> <<fB, fC>>
      [] w = "standard" /\ cid = "g2" -> <<fD>>
      [] w = "twins" /\ cid = "g1" -> <<fT1, fT2>>
      [] w = "suffix" /\ cid = "g1" -> <<fP, fQ, fT1>>
      [] w = "nameless" /\ cid = "g1" -> <<fN, fT1>>
      [] w \in {"race", "error_body"} /\ cid = "g1" -> <<fT1>>
      [] w = "overlap" /\ cid = "g1" -> <<fT2>>
      [] OTHER -> <<>>

RemoteFiles(cid) == Catalogue(world, cid)

\* the records of all the worlds, and the ids of those of each
Records == {fA, fB, fC, fD, fT1, fT2, fP, fQ, fN}
IdsIn == [w \in Worlds |->
            UNION {{Catalogue(w, c)[i].id : i \in 1..Len(Catalogue(w, c))} : c \in CollIds}]

FileIds == IdsIn[world]

\* ---------------------------------------------------------- recency filter

DigitChars == <<"0", "1", "2", "3", "4", "5", "6", "7", "8", "9">>
IsDigit(c) == \E d \in 1..Len(DigitChars) : DigitChars[d] = c
DigitValue(c) == (CHOOSE d \in 1..Len(DigitChars) : DigitChars[d] = c) - 1

\* the number written at positions from..to of a text
RECURSIVE NumberAt(_, _, _)
NumberAt(text, from, to) ==
    IF to < from THEN 0
    ELSE 10 * NumberAt(text, from, to - 1) + DigitValue(text[to])

IsLeap(y) == (y % 4 = 0 /\ y % 100 # 0) \/ y % 400 = 0
DaysInMonth(y, m) ==
    IF m = 2 THEN (IF IsLeap(y) THEN 29 ELSE 28)
    ELSE IF m \in {4, 6, 9, 11} THEN 30 ELSE 31

\* the layout of "%Y-%m-%d %H:%M:%S" with zero-padded fields
StampSeparators == [i \in {5, 8, 11, 14, 17} |->
                      IF i \in {5, 8} THEN "-" ELSE IF i = 11 THEN " " ELSE ":"]
StampLen == 19

\* strptime raised ValueError
BadStamp == <<>>

\* datetime.strptime(value, "%Y-%m-%d %H:%M:%S"): the fields <<Y, M, D, h, m, s>>
\* of a text in the format, BadStamp for any other text
strptime(value) ==
    IF /\ Len(value) = StampLen
       /\ \A i \in 1..StampLen :
            IF i \in DOMAIN StampSeparators THEN value[i] = StampSeparators[i]
            ELSE IsDigit(value[i])
    THEN LET dt == <<NumberAt(value, 1, 4), NumberAt(value, 6, 7),
                     NumberAt(value, 9, 10), NumberAt(value, 12, 13),
                     NumberAt(value, 15, 16), NumberAt(value, 18, 19)>>
         IN  IF /\ dt[1] >= 1
                /\ dt[2] \in 1..12
                /\ dt[3] \in 1..DaysInMonth(dt[1], dt[2])
                /\ dt[4] <= 23 /\ dt[5] <= 59 /\ dt[6] <= 59
             THEN dt ELSE BadStamp
    ELSE BadStamp

\* a >= b for two datetimes of the same zone: field by field
RECURSIVE DatetimeGE(_, _)
DatetimeGE(a, b) ==
    IF a = <<>> THEN TRUE
    ELSE IF Head(a) # Head(b) THEN Head(a) > Head(b)
    ELSE DatetimeGE(Tail(a), Tail(b))

\* no DNFV_DAYS: cutoff is None
NoCutoff == <<>>
\* the cutoff of a run that has one: 2024-01-10 00:00:00 UTC
CutoffJan10 == <<2024, 1, 10, 0, 0, 0>>

\* scripts that filter the records by created_at
HasRecency(s) == s \in {LINUX, GROUPS, DAILY, FORTIER}

\* the cutoffs a script can run with: the eodLevel2 script of fortier always
\* has one (DNFV_DAYS defaults to 7)
Cutoffs(s) ==
    CASE s \in {FORTIER, DAILY} -> {CutoffJan10}
      [] s \in {LINUX, GROUPS} -> {NoCutoff, CutoffJan10}
      [] OTHER -> {NoCutoff}

\* whether the recency filter of a script lets a record through.
\* download_all_linux.py skips a record only when its created_at is there,
\* parses and is before the cutoff; the group scripts keep a record only
\* when its created_at is there, parses and is at or after the cutoff
RecencyKeeps(s, cut, rec) ==
    IF cut = NoCutoff THEN TRUE
    ELSE IF s = LINUX
    THEN ~(/\ rec.created_at # <<>>
           /\ strptime(rec.created_at) # BadStamp
           /\ ~DatetimeGE(strptime(rec.created_at), cut))
    ELSE /\ rec.created_at # <<>>
         /\ strptime(rec.created_at) # BadStamp
         /\ DatetimeGE(strptime(rec.created_at), cut)

\* recent.sort(key=lambda t: t[0]): stable, oldest first
RECURSIVE InsertByCreated(_, _)
InsertByCreated(rec, sorted) ==
    IF sorted = <<>> THEN <<rec>>
    ELSE IF DatetimeGE(strptime(rec.created_at), strptime(Head(sorted).created_at))
         THEN <<Head(sorted)>> \o InsertByCreated(rec, Tail(sorted))
         ELSE <<rec>> \o sorted

RECURSIVE SortedByCreated(_)
SortedByCreated(recs) ==
    IF recs = <<>> THEN <<>>
    ELSE InsertByCreated(recs[Len(recs)], SortedByCreated(SubSeq(recs, 1, Len(recs) - 1)))

\* the records of a listing a script goes on to walk: the group scripts
\* filter the listing first, download_all_linux.py filters inside its loop
FilesToDownload(s, cut, recs) ==
    CASE s \in {GROUPS, DAILY} -> SelectSeq(recs, LAMBDA r : RecencyKeeps(s, cut, r))
      [] s = FORTIER -> SortedByCreated(SelectSeq(recs, LAMBDA r : RecencyKeeps(s, cut, r)))
      [] OTHER -> recs

\* ------------------------------------------------------------ file names

BadChars == {"<", ">", ":", "\"", "/", "\\", "|", "?", "*"}
Whitespace == {" ", "\t", "\n"}

\* re.sub(r'[<>:"/\\|?*]', "_", name)
ReplaceBad(name) ==
    [i \in 1..Len(name) |-> IF name[i] \in BadChars THEN "_" ELSE name[i]]

RECURSIVE lstrip(_, _)
lstrip(s, chars) ==
    IF s # <<>> /\ Head(s) \in chars THEN lstrip(Tail(s), chars) ELSE s

RECURSIVE rstrip(_, _)
rstrip(s, chars) ==
    IF s # <<>> /\ s[Len(s)] \in chars
    THEN rstrip(SubSeq(s, 1, Len(s) - 1), chars)
    ELSE s

\* str.strip()
strip(s) == rstrip(lstrip(s, Whitespace), Whitespace)

\* download_allfiles_linux_discovery.py / download_all_windows_Jan31.py
sanitize_filename(name) ==
    IF name = <<>> THEN <<"unnamed_file">>
    ELSE LET clean == strip(ReplaceBad(name))
         IN  IF clean = <<>> THEN <<"unnamed_file">> ELSE clean

\* download_all_linux.py, download_groups_linux.py and the eodLevel2 scripts
safe_name(name) ==
    LET clean == strip(ReplaceBad(name))
    IN  IF clean = <<>> THEN <<"file">> ELSE clean

\* the cap of download_all_python.py's sanitizer
MaxNameLen == 150

\* download_all_python.py
sanitize_file_or_folder_name(name) ==
    LET stripped == strip(name)
        clean == rstrip(ReplaceBad(stripped), {" ", "."})
    IN  IF stripped = <<>> \/ clean = <<>> THEN <<"unnamed">>
        ELSE IF Len(clean) > MaxNameLen
             THEN rstrip(SubSeq(clean, 1, MaxNameLen), {" ", "."})
             ELSE clean

\* names the sanitizers are given: every name of up to MaxShortName characters
\* (empty, whitespace-only and dots-only ones among them), and names longer
\* than the cap made of MaxNameLen filling characters and a short name
MaxShortName == 3
NameChars == {"a", ".", " ", ":"}
FillChars == {"x", "."}
ShortNames == UNION {[1..n -> NameChars] : n \in 0..MaxShortName}
LongNames == {[i \in 1..MaxNameLen |-> c] \o t : c \in FillChars, t \in ShortNames}
NameInputs == ShortNames \cup LongNames

\* the name a record is saved under, as each script's loop computes it
DisplayOr(rec, other) ==
    IF rec.display_name # <<>> THEN rec.display_name ELSE other

UuidName(rec) == IF rec.uuid_filename = None THEN <<>> ELSE <<rec.uuid_filename>>

TargetName(s, rec) ==
    CASE s \in {DISC, WIN} -> sanitize_filename(DisplayOr(rec, UuidName(rec)))
      [] s = PY -> sanitize_file_or_folder_name(DisplayOr(rec, <<"unnamed">>))
      [] s = EOD -> rec.display_name
      [] OTHER -> safe_name(DisplayOr(rec, UuidName(rec)))

\* the directory a collection's files go to: one per collection, or the one
\* output directory of the eodLevel2 scripts
TargetDir(s, c) == IF SingleGroup(s) THEN "out" ELSE c.id

\* a path is <<directory, file name>>
FinalPath(s, c, rec) == <<TargetDir(s, c), TargetName(s, rec)>>

\* the in-progress suffix; download_eodlevel2.py has none and writes to the
\* final path
TempSuffix(s) ==
    CASE s \in {DISC, WIN} -> <<".tmp">>
      [] s = EOD -> <<>>
      [] OTHER -> <<".part">>

TempPath(s, final) == <<final[1], final[2] \o TempSuffix(s)>>

\* ------------------------------------------------------------------ state

VARIABLES
    script,     \* which script is running
    run,        \* number of this invocation (1..MaxRuns)
    pc,         \* position of the run
    endpoints,  \* the list get_api_endpoints returned
    probed,     \* the /health probes made, in order: [url, healthy]
    base_url,   \* the origin all API requests go to (None before it is chosen)
    colls,      \* collections of the current type still to process
    stage,      \* "purchases" or "groups": the collection type being walked
    coll,       \* the collection being processed (NoColl between collections)
    files,      \* records of `coll` still to process
    cur,        \* the record being fetched (NoRecord between fetches)
    fs,         \* the output tree: path -> sequence of chunks
    conn,       \* streamed responses currently open: subset of {"cdn","origin"}
    att,        \* the latest fetch: its record, whether the final path existed
                \* when it started, how its CDN and origin attempts went, and
                \* the chunks a broken CDN stream left in the temporary file;
                \* and where a second run of the script, started on the same
                \* output directory, is in its fetch of the same record:
                \* "idle", "open" (peer_at counts the chunks it has written)
                \* or "over"
    outcome,    \* per record, this run: none / Skipped / Downloaded / Failed
    reqs,       \* per record, this run: the download requests issued, in order
    wrote,      \* records whose fetch touched the output tree in this run
    listed,     \* per collection, this run: none / ok / empty / failed
    synced,     \* record id -> the bytes an earlier run downloaded for it
    cause,      \* why the run ended early (None while it has not)
    reply,      \* the response the run's setup (resolver, login) received last
    session,    \* the headers of the requests.Session: User-Agent, Authorization
    sent,       \* the requests issued in this run: [to, ua, auth, url]
    logins,     \* POSTs to /auth/login made in this run
    cutoff,     \* the recency cutoff the script runs with (NoCutoff: none)
    files_downloaded_count,
                \* the count download_daily_purchases.py reports at its end
    misread,    \* collections whose files listing came with a non-200 status
                \* and was read as a listing all the same, in this run
    unit        \* a sanitizer call on its own: [input, output, done]

vars == <<script, run, pc, endpoints, probed, base_url, stage, colls, coll, files,
          cur, fs, conn, att, outcome, reqs, wrote, listed, synced, cause, reply,
          session, sent, logins, cutoff, unit, world, files_downloaded_count,
          misread>>

orch == <<stage, colls, coll, files, cur>>
resolver == <<endpoints, probed, base_url, reply>>
wire == <<session, sent, logins>>
hist == <<outcome, files_downloaded_count, reqs, wrote, listed, misread, synced>>
net  == <<conn, att>>

NoAttempt == [id |-> None, existed |-> FALSE, cdn |-> "none", origin |-> "none",
              raced |-> FALSE, left |-> 0, peer |-> "idle", peer_at |-> 0]
\* how an attempt that did not succeed ended
Failures == {"non200", "exception"}
NoRecord == [id |-> None]
NoColl == [id |-> None]

Exists(p) == p \in DOMAIN fs

\* the file opened for appending: what it held stays
Truncate_append(f, p) == [q \in DOMAIN f \cup {p} |-> IF q \in DOMAIN f THEN f[q] ELSE <<>>]

\* open(p, "wb") then writes: the file is created or truncated
Truncate(f, p) == [q \in DOMAIN f \cup {p} |-> IF q = p THEN <<>> ELSE f[q]]
WriteChunk(f, p, ch) == [f EXCEPT ![p] = @ \o <<ch>>]
Remove(f, p) == [q \in DOMAIN f \ {p} |-> f[q]]
\* os.replace / Path.replace / os.rename onto a path that does not exist
Rename(f, from, to) ==
    [q \in (DOMAIN f \ {from}) \cup {to} |-> IF q = to THEN f[from] ELSE f[q]]

\* the body a source serves for a record
Body(id, src) == [i \in 1..NChunks |-> <<id, src, i>>]

BASE_URL == "https://api.dnfilevault.com"
FALLBACK_ENDPOINTS == <<"https://api.dnfilevault.com",
                        "https://api-redmint.dnfilevault.com">>

\* the User-Agent every script puts on its session, and the one the requests
\* library sends when none is set
USER_AGENT == "DNFileVaultClient/1.0 (+support@deltaneutral.com)"
DefaultUserAgent == "python-requests"

\* the Authorization header made of the token the nth login returned
Tokens == <<"Bearer token1", "Bearer token2">>
MaxLogins == Len(Tokens)

NoReply == [to |-> None, status |-> None, doc |-> <<>>]
\* requests.Session() and session.headers.update({"User-Agent": ...})
NewSession == [ua |-> USER_AGENT, auth |-> None]

\* every API request sent to the hardcoded address, whatever was selected
RequestUrl_hardcoded(to) ==
    CASE to = "discovery" -> "https://config.dnfilevault.com/endpoints.json"
      [] to = "health" -> endpoints[Len(probed) + 1]
      [] to = "cdn" -> cur.cloud_share_link
      [] OTHER -> BASE_URL

\* where a request of each kind is sent: DISCOVERY_URL, the endpoint being
\* probed, the record's cloud_share_link, and for every API call the
\* base_url of the run (f"{base_url}/auth/login", f"{base_url}/groups", ...)
RequestUrl(to) ==
    CASE to = "discovery" -> "https://config.dnfilevault.com/endpoints.json"
      [] to = "health" -> endpoints[Len(probed) + 1]
      [] to = "cdn" -> cur.cloud_share_link
      [] OTHER -> base_url

\* a request goes out with the given headers
Send(to, headers) ==
    sent' = sent \cup {[to |-> to, ua |-> headers.ua, auth |-> headers.auth,
                        url |-> RequestUrl(to)]}

\* session.get / session.post: the session's headers
SessionHeaders == session

\* the headers of the GET of a cloud_share_link: requests.get sends none of
\* the session's; session.get(..., headers={"Authorization": None}) drops
\* the Authorization header and keeps the rest
CdnHeaders(s) ==
    IF s \in {DISC, WIN} THEN [ua |-> DefaultUserAgent, auth |-> None]
    ELSE [session EXCEPT !.auth = None]

\* the download sent without the session
OriginHeaders_no_session == [ua |-> DefaultUserAgent, auth |-> None]

\* the headers of GET {base_url}/download/{uuid_filename}
OriginHeaders == SessionHeaders

\* main starting at the login, without get_api_endpoints and find_working_api
FirstPc_login(s) == "login"

FirstPc(s) == IF HasDiscovery(s) THEN "discover" ELSE "login"

\* no sanitizer call under way
NoUnit == [input |-> <<>>, output |-> <<>>, done |-> FALSE]

\* a run at its start
InitRun ==
    /\ run = 1
    /\ pc = FirstPc(script)
    /\ endpoints = <<>>
    /\ probed = <<>>
    /\ base_url = IF HasDiscovery(script) THEN None ELSE BASE_URL
    /\ stage = IF HasPurchases(script) THEN "purchases" ELSE "groups"
    /\ colls = <<>>
    /\ coll = NoColl
    /\ files = <<>>
    /\ cur = NoRecord
    /\ fs = <<>>
    /\ conn = {}
    /\ att = NoAttempt
    /\ outcome = [id \in FileIds |-> "none"]
    /\ reqs = [id \in FileIds |-> <<>>]
    /\ wrote = {}
    /\ listed = [c \in CollIds |-> "none"]
    /\ synced = <<>>
    /\ cause = None
    /\ reply = NoReply
    /\ session = NewSession
    /\ sent = {}
    /\ logins = 0
    /\ cutoff \in Cutoffs(script)
    /\ files_downloaded_count = 0
    /\ misread = {}

\* the scripts that filter by created_at run on the standard vault, the
\* others on the plain one
Init ==
    /\ script \in Scripts
    /\ world = IF HasRecency(script) THEN "standard" ELSE "plain"
    /\ InitRun
    /\ unit = NoUnit

\* ------------------------------------------------------ endpoint resolver

\* discovery documents the config service may serve (their "endpoints" array)
DocBA == <<[url |-> "https://api-redmint.dnfilevault.com", priority |-> 2],
           [url |-> "https://api.dnfilevault.com", priority |-> 1]>>
DocEmpty == <<>>
\* an entry without a priority next to one whose priority is above the default
DocMissing == <<[url |-> "https://api.dnfilevault.com"],
                [url |-> "https://api-redmint.dnfilevault.com", priority |-> 100]>>
Documents == <<DocBA, DocEmpty, DocMissing>>

\* key=lambda x: x.get("priority", 99)
DefaultPriority == 99
PriorityKey(e) == IF "priority" \in DOMAIN e THEN e.priority ELSE DefaultPriority

\* sorted() is stable: an entry goes after every entry whose key is not larger
RECURSIVE InsertByKey(_, _)
InsertByKey(e, sorted) ==
    IF sorted = <<>> THEN <<e>>
    ELSE IF PriorityKey(Head(sorted)) <= PriorityKey(e)
         THEN <<Head(sorted)>> \o InsertByKey(e, Tail(sorted))
         ELSE <<e>> \o sorted

RECURSIVE SortedByPriority(_)
SortedByPriority(doc) ==
    IF doc = <<>> THEN <<>>
    ELSE InsertByKey(doc[Len(doc)], SortedByPriority(SubSeq(doc, 1, Len(doc) - 1)))

Urls(doc) == [i \in 1..Len(doc) |-> doc[i].url]

DiscoveryFailures == {"non200", "bad_json", "network_error", "timeout"}

\* the else branch returning an empty list
DiscoveryFallback_empty(failure) ==
    IF failure = "non200" THEN <<>> ELSE FALLBACK_ENDPOINTS

\* what get_api_endpoints returns after a failed discovery
DiscoveryFallback(failure) == FALLBACK_ENDPOINTS

\* get_api_endpoints: the discovery document sorted by priority, or the
\* hardcoded fallback list on any failure
get_api_endpoints ==
    /\ pc = "discover"
    /\ Send("discovery", SessionHeaders)
    /\ \/ \E i \in 1..Len(Documents) :
            /\ reply' = [to |-> "discovery", status |-> "status200", doc |-> Documents[i]]
            /\ endpoints' = Urls(SortedByPriority(Documents[i]))
       \/ \E failure \in DiscoveryFailures :
            /\ reply' = [to |-> "discovery", status |-> failure, doc |-> <<>>]
            /\ endpoints' = DiscoveryFallback(failure)
    /\ pc' = "probe"
    /\ UNCHANGED <<script, world, cutoff, unit, run, probed, base_url, orch, fs, net, hist, cause, session,
                   logins>>

\* what a GET {url}/health can come to
HealthResults == {"healthy", "other_status", "non200", "bad_json", "timeout",
                  "connection_error"}

\* "if r.status_code == 200" and data.get("status") == "healthy"
IsHealthy(result) == result = "healthy"

\* a failed endpoint probed a second time before the loop moves on
NextEndpoint_retry == endpoints[(Len(probed) + 2) \div 2]

\* the list walked from its end
NextEndpoint_reversed == endpoints[Len(endpoints) - Len(probed)]

\* "for url in endpoints": the endpoint the loop comes to next
NextEndpoint == endpoints[Len(probed) + 1]

\* find_working_api, one pass of its loop: the next endpoint is probed; it is
\* returned when it answers 200 with status "healthy", skipped otherwise
find_working_api_probe ==
    /\ pc = "probe"
    /\ Len(probed) < Len(endpoints)
    /\ LET url == NextEndpoint
       IN  \E result \in HealthResults :
             /\ probed' = probed \o <<[url |-> url, healthy |-> IsHealthy(result)]>>
             /\ reply' = [to |-> "health", status |-> result, doc |-> <<>>]
             /\ IF IsHealthy(result)
                THEN base_url' = url /\ pc' = "login"
                ELSE base_url' = base_url /\ pc' = "probe"
    /\ Send("health", SessionHeaders)
    /\ UNCHANGED <<script, world, cutoff, unit, run, endpoints, orch, fs, net, hist, cause, session, logins>>

\* the check of the returned value left out: main goes on to the login
find_working_api_none_goes_on ==
    /\ pc = "probe"
    /\ Len(probed) = Len(endpoints)
    /\ pc' = "login"
    /\ UNCHANGED <<script, world, cutoff, unit, run, resolver, orch, fs, net, hist, wire, cause>>

\* the list walked again from its start after the last endpoint failed
find_working_api_none_again ==
    /\ pc = "probe"
    /\ Len(probed) = Len(endpoints)
    /\ probed' = <<>>
    /\ UNCHANGED <<script, world, cutoff, unit, run, pc, endpoints, base_url, reply, orch, fs, net,
                   hist, wire, cause>>

\* find_working_api returns None after the last endpoint failed; main exits 1
find_working_api_none ==
    /\ pc = "probe"
    /\ Len(probed) = Len(endpoints)
    /\ pc' = "fatal"
    /\ cause' = "no_endpoint"
    /\ UNCHANGED <<script, world, cutoff, unit, run, resolver, orch, fs, net, hist, wire>>

\* -------------------------------------------------------- session manager

LoginResults == {"token", "status401", "status500", "no_token", "network_error"}

\* the exit after a failed login left out
login_to_api_goes_on ==
    /\ pc = "login"
    /\ logins < MaxLogins
    /\ logins' = logins + 1
    /\ Send("login", SessionHeaders)
    /\ \E result \in LoginResults :
         /\ reply' = [to |-> "login", status |-> result, doc |-> <<>>]
         /\ pc' = IF HasPurchases(script) THEN "list_purchases" ELSE "list_groups"
         /\ cause' = cause
         /\ session' = IF result = "token"
                       THEN [session EXCEPT !.auth = Tokens[logins']] ELSE session
    /\ UNCHANGED <<script, world, cutoff, unit, run, endpoints, probed, base_url, orch, fs, net, hist>>

\* POST /auth/login, once; every script ends the run when it fails
login_to_api ==
    /\ pc = "login"
    /\ logins < MaxLogins
    /\ logins' = logins + 1
    /\ Send("login", SessionHeaders)
    /\ \E result \in LoginResults :
         /\ reply' = [to |-> "login", status |-> result, doc |-> <<>>]
         /\ IF result = "token"
            THEN /\ pc' = IF HasPurchases(script) THEN "list_purchases" ELSE "list_groups"
                 /\ cause' = cause
                 /\ session' = [session EXCEPT !.auth = Tokens[logins']]
            ELSE /\ pc' = IF script \in {EOD, FORTIER} THEN "crashed" ELSE "fatal"
                 /\ cause' = "login"
                 /\ session' = session
    /\ UNCHANGED <<script, world, cutoff, unit, run, endpoints, probed, base_url, orch, fs, net, hist>>

\* ------------------------------------------------------ collection lister

\* a listing response: the status and what the body is -- JSON holding the
\* listing's key, JSON without it (an error object), or not JSON at all; or
\* no response (connection error, timeout).  The standard vault answers a
\* failed call with an error page; in the world "error_body" its non-200
\* answers carry JSON
ListingResponses ==
    [status : {200}, body : {"listing", "json_other", "not_json"}]
        \cup {[status |-> 500, body |-> "not_json"]}
        \cup {[status |-> 0, body |-> "network_error"]}
        \cup (IF world = "error_body"
              THEN [status : {500}, body : {"listing", "json_other"}] ELSE {})

\* how each script reads a listing response: "items" (the body's list),
\* "empty" (the key's default, []), or "error" (an exception is raised)
ReadListing(s, resp) ==
    IF resp.body = "network_error" THEN "error"
    ELSE IF s \in {PY, GROUPS, DAILY, FORTIER} /\ resp.status # 200 THEN "error"
    ELSE IF resp.body = "not_json" THEN "error"
    ELSE IF resp.body = "listing" THEN "items"
    ELSE IF s = EOD THEN "error"
    ELSE "empty"

\* what a failed listing of the purchases or of the groups does to the run:
\* "continue" with an empty list, or end it
OnTopListingError(s) ==
    CASE s \in {DISC, WIN, LINUX} -> "continue"
      [] s \in {PY, GROUPS, DAILY} -> "fatal"
      [] OTHER -> "crashed"

\* what a failed listing of one collection's files does to the run
OnFilesListingError(s) ==
    CASE s \in {DISC, WIN, LINUX, GROUPS, DAILY} -> "continue"
      [] s = PY -> "fatal"
      [] OTHER -> "crashed"

\* the groups a script goes on to process
GroupsToProcess(s, groups) ==
    IF SingleGroup(s)
    THEN LET hit == SelectSeq(groups, LAMBDA g : g.name = "eodLevel2")
         IN  IF hit = <<>> THEN <<>> ELSE <<Head(hit)>>
    ELSE groups

\* GET /purchases
list_purchases ==
    /\ pc = "list_purchases"
    /\ \E resp \in ListingResponses :
         LET read == ReadListing(script, resp)
         IN  IF read = "error" /\ OnTopListingError(script) # "continue"
             THEN /\ pc' = OnTopListingError(script)
                  /\ cause' = "listing"
                  /\ colls' = colls
             ELSE /\ pc' = "coll_loop"
                  /\ cause' = cause
                  /\ colls' = IF read = "items" THEN RemotePurchases ELSE <<>>
    /\ stage' = "purchases"
    /\ Send("purchases", SessionHeaders)
    /\ UNCHANGED <<script, world, cutoff, unit, run, resolver, coll, files, cur, fs, net, hist, session,
                   logins>>

\* GET /groups
list_groups ==
    /\ pc = "list_groups"
    /\ \E resp \in ListingResponses :
         LET read == ReadListing(script, resp)
             groups == GroupsToProcess(script,
                           IF read = "items" THEN RemoteGroups ELSE <<>>)
         IN  IF read = "error" /\ OnTopListingError(script) # "continue"
             THEN /\ pc' = OnTopListingError(script)
                  /\ cause' = "listing"
                  /\ colls' = colls
             ELSE IF script = FORTIER /\ groups = <<>>
             THEN /\ pc' = "fatal"
                  /\ cause' = "group_not_found"
                  /\ colls' = colls
             ELSE /\ pc' = "coll_loop"
                  /\ cause' = cause
                  /\ colls' = groups
    /\ stage' = "groups"
    /\ Send("groups", SessionHeaders)
    /\ UNCHANGED <<script, world, cutoff, unit, run, resolver, coll, files, cur, fs, net, hist, session,
                   logins>>

\* the loop over the collections, one pass: GET /{type}/{id}/files
list_files ==
    /\ pc = "coll_loop"
    /\ colls # <<>>
    /\ LET c == Head(colls)
       IN  \E resp \in ListingResponses :
             LET read == ReadListing(script, resp)
             IN  /\ colls' = Tail(colls)
                 /\ IF read = "error"
                    THEN /\ listed' = [listed EXCEPT ![c.id] = "failed"]
                         /\ misread' = misread
                         /\ pc' = IF OnFilesListingError(script) = "continue"
                                  THEN "coll_loop"
                                  ELSE OnFilesListingError(script)
                         /\ cause' = IF OnFilesListingError(script) = "continue"
                                     THEN cause ELSE "files_listing"
                         /\ UNCHANGED <<coll, files>>
                    ELSE /\ listed' = [listed EXCEPT ![c.id] =
                                         IF read = "items" THEN "ok" ELSE "empty"]
                         /\ misread' = IF resp.status # 200
                                       THEN misread \cup {c.id} ELSE misread
                         /\ coll' = c
                         /\ files' = IF read = "items"
                                     THEN FilesToDownload(script, cutoff, RemoteFiles(c.id))
                                     ELSE <<>>
                         /\ pc' = "file_loop"
                         /\ cause' = cause
    /\ Send("files", SessionHeaders)
    /\ UNCHANGED <<script, world, cutoff, unit, run, resolver, stage, cur, fs, net, outcome, files_downloaded_count, reqs, wrote,
                   synced, session, logins>>

\* the loop over the collections is over: on to the groups, or the run is done
collections_done ==
    /\ pc = "coll_loop"
    /\ colls = <<>>
    /\ pc' = IF stage = "purchases" THEN "list_groups" ELSE "done"
    /\ UNCHANGED <<script, world, cutoff, unit, run, resolver, orch, fs, net, hist, cause>>
    /\ UNCHANGED wire

\* records the loop passes over without calling fetch: those without an
\* identifier, and in download_all_linux.py those the recency filter drops
SkippedByLoop(s, rec) ==
    \/ s \in {PY, GROUPS, DAILY} /\ rec.uuid_filename = None
    \/ s = LINUX /\ ~RecencyKeeps(s, cutoff, rec)

\* f["uuid_filename"] raises KeyError for a record without the key:
\* download_all_linux.py reads it when the display_name is empty, the
\* eodLevel2 scripts read it for every record
NameRaises(s, rec) ==
    /\ rec.uuid_filename = None
    /\ \/ s = LINUX /\ rec.display_name = <<>>
       \/ s \in {EOD, FORTIER}

\* the loop over a collection's records, one pass
next_file ==
    /\ pc = "file_loop"
    /\ files # <<>>
    /\ files' = Tail(files)
    /\ IF SkippedByLoop(script, Head(files))
       THEN UNCHANGED <<pc, cur, att, cause>>
       ELSE IF NameRaises(script, Head(files))
       THEN /\ pc' = "crashed"
            /\ cause' = "key_error"
            /\ UNCHANGED <<cur, att>>
       ELSE /\ pc' = "fetch"
            /\ cause' = cause
            /\ cur' = Head(files)
            /\ att' = [NoAttempt EXCEPT
                         !.id = Head(files).id,
                         !.existed = Exists(FinalPath(script, coll, Head(files)))]
    /\ UNCHANGED <<script, world, cutoff, unit, run, resolver, stage, colls, coll, fs, conn, hist>>
    /\ UNCHANGED wire

files_done ==
    /\ pc = "file_loop"
    /\ files = <<>>
    /\ pc' = "coll_loop"
    /\ coll' = NoColl
    /\ UNCHANGED <<script, world, cutoff, unit, run, resolver, stage, colls, files, cur, fs, net, hist,
                   cause>>
    /\ UNCHANGED wire

\* ----------------------------------------------------------- file fetcher

\* os.path.splitext on a file name: the extension starts at the last dot,
\* unless nothing but dots comes before it
RECURSIVE LastDot(_, _)
LastDot(name, i) ==
    IF i <= 1 THEN 0
    ELSE IF name[i] = "."
         THEN (IF \E j \in 1..(i - 1) : name[j] # "." THEN i ELSE 0)
         ELSE LastDot(name, i - 1)

SplitBase(name) ==
    IF LastDot(name, Len(name)) = 0 THEN name
    ELSE SubSeq(name, 1, LastDot(name, Len(name)) - 1)

SplitExt(name) ==
    IF LastDot(name, Len(name)) = 0 THEN <<>>
    ELSE SubSeq(name, LastDot(name, Len(name)), Len(name))

\* f"{base} ({i}){ext}"
Numbered(path, i) ==
    <<path[1], SplitBase(path[2]) \o <<" (", ToString(i), ")">> \o SplitExt(path[2])>>

RECURSIVE UniqueFrom(_, _, _)
UniqueFrom(f, path, i) ==
    IF Numbered(path, i) \notin DOMAIN f THEN Numbered(path, i)
    ELSE UniqueFrom(f, path, i + 1)

\* the first numbered candidate returned without a look at the disk
unique_path_unchecked(f, path) == IF path \notin DOMAIN f THEN path ELSE Numbered(path, 2)

\* download_all_python.py
unique_path(f, path) == IF path \notin DOMAIN f THEN path ELSE UniqueFrom(f, path, 2)

\* the end of a successful stream: the temporary file becomes the final one
Finalize(s, f, temp, final) ==
    CASE s \in {DISC, WIN} ->
           Rename(IF final \in DOMAIN f THEN Remove(f, final) ELSE f, temp, final)
      [] s = PY ->
           Rename(f, temp, IF final \in DOMAIN f THEN unique_path(f, final) ELSE final)
      [] s = EOD -> f
      [] OTHER -> Rename(f, temp, final)

\* what an origin failure (non-200, exception) does: the fetch fails and the
\* temporary file stays or is removed, or the exception leaves the loop
OnOriginError(s) ==
    CASE s \in {DISC, WIN} -> "failed_keep_temp"
      [] s \in {LINUX, GROUPS, DAILY} -> "failed_cleanup"
      [] s = PY -> "fatal"
      [] OTHER -> "crashed"

CurFinal == FinalPath(script, coll, cur)
CurTemp == TempPath(script, CurFinal)

HasCdnLink == UsesCdn(script) /\ cur.cloud_share_link # None

\* the existence check dropped
AlreadyDownloaded_never == FALSE

\* the existence check made on the temporary path
AlreadyDownloaded_temp == Exists(CurTemp)

\* "if os.path.exists(full_save_path)"
AlreadyDownloaded == Exists(CurFinal)

\* "files_downloaded_count += 1", the statement after the download_stream
\* call; no other script keeps a count
Counted(n) == IF script = DAILY THEN n + 1 ELSE n

\* the fetch returns to the loop over the records
Return(result) ==
    /\ outcome' = [outcome EXCEPT ![cur.id] = result]
    /\ files_downloaded_count' = Counted(files_downloaded_count)
    /\ pc' = "file_loop"
    /\ cur' = NoRecord
    /\ conn' = {}

\* "if os.path.exists(full_save_path): return"
fetch_skip ==
    /\ pc = "fetch"
    /\ AlreadyDownloaded
    /\ Return("Skipped")
    /\ UNCHANGED <<script, world, cutoff, unit, run, resolver, stage, colls, coll, files, fs, att, reqs,
                   wrote, listed, misread, synced, cause>>
    /\ UNCHANGED wire

\* the streamed GET of the cloud_share_link
cdn_get ==
    /\ pc = "fetch"
    /\ ~AlreadyDownloaded
    /\ HasCdnLink
    /\ reqs' = [reqs EXCEPT ![cur.id] = @ \o <<"cdn">>]
    /\ Send("cdn", CdnHeaders(script))
    /\ \E result \in {"status200", "non200", "exception"} :
         IF result = "status200"
         THEN /\ conn' = conn \cup {"cdn"}
              /\ att' = [att EXCEPT !.cdn = "inflight"]
              /\ pc' = "cdn_open"
         ELSE /\ conn' = conn
              /\ att' = [att EXCEPT !.cdn = result]
              /\ pc' = "origin"
    /\ UNCHANGED <<script, world, cutoff, unit, run, resolver, orch, fs, outcome, files_downloaded_count, wrote, listed, misread, synced,
                   cause, session, logins>>

\* open(temp_path, "wb")
cdn_open ==
    /\ pc = "cdn_open"
    /\ fs' = Truncate(fs, CurTemp)
    /\ wrote' = wrote \cup {cur.id}
    /\ pc' = "cdn_stream"
    /\ UNCHANGED <<script, world, cutoff, unit, run, resolver, orch, net, outcome, files_downloaded_count, reqs, listed, misread, synced,
                   cause>>
    /\ UNCHANGED wire

\* one chunk of iter_content written
cdn_chunk ==
    /\ pc = "cdn_stream"
    /\ Len(fs[CurTemp]) < NChunks
    /\ fs' = WriteChunk(fs, CurTemp, <<cur.id, "cdn", Len(fs[CurTemp]) + 1>>)
    /\ UNCHANGED <<script, world, cutoff, unit, run, pc, resolver, orch, net, hist, cause>>
    /\ UNCHANGED wire

\* the broken stream ends the fetch: no fallback after it
cdn_exception_fails ==
    /\ pc = "cdn_stream"
    /\ Len(fs[CurTemp]) < NChunks
    /\ att' = [att EXCEPT !.cdn = "exception"]
    /\ Return("Failed")
    /\ UNCHANGED <<script, world, cutoff, unit, run, resolver, stage, colls, coll, files, fs, reqs, wrote,
                   listed, misread, synced, cause>>
    /\ UNCHANGED wire

\* the stream breaks before the body is complete; "except Exception" goes on
\* to the fallback
cdn_exception ==
    /\ pc = "cdn_stream"
    /\ Len(fs[CurTemp]) < NChunks
    /\ conn' = conn \ {"cdn"}
    /\ att' = [att EXCEPT !.cdn = "exception", !.left = Len(fs[CurTemp])]
    /\ pc' = "origin"
    /\ UNCHANGED <<script, world, cutoff, unit, run, resolver, orch, fs, hist, cause>>
    /\ UNCHANGED wire

\* the return after the rename left out: the fetch goes on to the fallback
cdn_finalize_no_return ==
    /\ pc = "cdn_stream"
    /\ Len(fs[CurTemp]) = NChunks
    /\ fs' = Finalize(script, fs, CurTemp, CurFinal)
    /\ att' = [att EXCEPT !.cdn = "ok"]
    /\ conn' = conn \ {"cdn"}
    /\ pc' = "origin"
    /\ UNCHANGED <<script, world, cutoff, unit, run, resolver, orch, hist, cause>>
    /\ UNCHANGED wire

\* the body is complete: rename, and the fetch is done
cdn_finalize ==
    /\ pc = "cdn_stream"
    /\ Len(fs[CurTemp]) = NChunks
    /\ fs' = Finalize(script, fs, CurTemp, CurFinal)
    /\ att' = [att EXCEPT !.cdn = "ok"]
    /\ Return("Downloaded")
    /\ UNCHANGED <<script, world, cutoff, unit, run, resolver, stage, colls, coll, files, reqs, wrote,
                   listed, misread, synced, cause>>
    /\ UNCHANGED wire

\* the fallback's turn: after the CDN attempt, or at once when there is none
OriginTurn == pc = "origin" \/ (pc = "fetch" /\ ~AlreadyDownloaded /\ ~HasCdnLink)

\* scripts whose fetch checks the identifier before the origin request
ChecksIdentifier(s) == s \in {DISC, WIN, LINUX, PY}

\* "if not uuid_filename: return"
origin_no_identifier ==
    /\ OriginTurn
    /\ ChecksIdentifier(script)
    /\ cur.uuid_filename = None
    /\ Return("Failed")
    /\ UNCHANGED <<script, world, cutoff, unit, run, resolver, stage, colls, coll, files, fs, att, reqs,
                   wrote, listed, misread, synced, cause>>
    /\ UNCHANGED wire

\* the origin request failed, before or while the body was streamed
OriginFailed(result) ==
    LET how == OnOriginError(script)
    IN  /\ att' = [att EXCEPT !.origin = result]
        /\ fs' = IF how = "failed_cleanup" /\ Exists(CurTemp)
                 THEN Remove(fs, CurTemp) ELSE fs
        /\ wrote' = IF how = "failed_cleanup" /\ Exists(CurTemp)
                    THEN wrote \cup {cur.id} ELSE wrote
        /\ outcome' = [outcome EXCEPT ![cur.id] = "Failed"]
        /\ conn' = {}
        /\ IF how \in {"fatal", "crashed"}
           THEN /\ pc' = how /\ cause' = "fetch" /\ cur' = cur
                /\ files_downloaded_count' = files_downloaded_count
           ELSE /\ pc' = "file_loop" /\ cause' = cause /\ cur' = NoRecord
                /\ files_downloaded_count' = Counted(files_downloaded_count)

\* the streamed GET of {base_url}/download/{uuid_filename}
origin_get ==
    /\ OriginTurn
    /\ ~(ChecksIdentifier(script) /\ cur.uuid_filename = None)
    /\ reqs' = [reqs EXCEPT ![cur.id] = @ \o <<"origin">>]
    /\ Send("download", OriginHeaders)
    /\ \E result \in {"status200", "non200", "exception"} :
         IF result = "status200"
         THEN /\ conn' = conn \cup {"origin"}
              /\ att' = [att EXCEPT !.origin = "inflight"]
              /\ pc' = "origin_open"
              /\ UNCHANGED <<fs, wrote, outcome, files_downloaded_count, cur, cause>>
         ELSE OriginFailed(result)
    /\ UNCHANGED <<script, world, cutoff, unit, run, resolver, stage, colls, coll, files, listed, misread, synced,
                   session, logins>>

\* the fallback opening the temporary file for appending
origin_open_appends ==
    /\ pc = "origin_open"
    /\ fs' = Truncate_append(fs, CurTemp)
    /\ wrote' = wrote \cup {cur.id}
    /\ pc' = "origin_stream"
    /\ UNCHANGED <<script, world, cutoff, unit, run, resolver, orch, net, outcome, files_downloaded_count, reqs, listed, misread, synced,
                   cause>>
    /\ UNCHANGED wire

\* open(temp_path, "wb")
origin_open ==
    /\ pc = "origin_open"
    /\ fs' = Truncate(fs, CurTemp)
    /\ wrote' = wrote \cup {cur.id}
    /\ pc' = "origin_stream"
    /\ UNCHANGED <<script, world, cutoff, unit, run, resolver, orch, net, outcome, files_downloaded_count, reqs, listed, misread, synced,
                   cause>>
    /\ UNCHANGED wire

origin_chunk ==
    /\ pc = "origin_stream"
    /\ Len(fs[CurTemp]) < NChunks
    /\ fs' = WriteChunk(fs, CurTemp, <<cur.id, "origin", Len(fs[CurTemp]) + 1>>)
    /\ UNCHANGED <<script, world, cutoff, unit, run, pc, resolver, orch, net, hist, cause>>
    /\ UNCHANGED wire

origin_exception ==
    /\ pc = "origin_stream"
    /\ Len(fs[CurTemp]) < NChunks
    /\ OriginFailed("exception")
    /\ UNCHANGED <<script, world, cutoff, unit, run, resolver, stage, colls, coll, files, reqs, listed, misread,
                   synced>>
    /\ UNCHANGED wire

origin_finalize ==
    /\ pc = "origin_stream"
    /\ Len(fs[CurTemp]) = NChunks
    /\ fs' = Finalize(script, fs, CurTemp, CurFinal)
    /\ att' = [att EXCEPT !.origin = "ok"]
    /\ Return("Downloaded")
    /\ UNCHANGED <<script, world, cutoff, unit, run, resolver, stage, colls, coll, files, reqs, wrote,
                   listed, misread, synced, cause>>
    /\ UNCHANGED wire

\* ------------------------------------------------------------ the next run

Ended == pc \in {"done", "fatal", "crashed"}

\* the collection a record is listed in
RecordColl(id) == CHOOSE c \in Collections :
                    \E w \in Worlds : \E i \in 1..Len(Catalogue(w, c.id)) :
                      Catalogue(w, c.id)[i].id = id
RecordOf(id) == CHOOSE r \in Records : r.id = id
\* the final path of every record under every script
FinalPaths == [s \in AllScripts |->
                 [id \in {r.id : r \in Records} |->
                    FinalPath(s, RecordColl(id), RecordOf(id))]]
FinalOf(s, id) == FinalPaths[s][id]

\* the script is started again on the same output directory
restart ==
    /\ Ended
    /\ run < MaxRuns
    /\ run' = run + 1
    /\ pc' = FirstPc(script)
    /\ endpoints' = <<>>
    /\ probed' = <<>>
    /\ base_url' = IF HasDiscovery(script) THEN None ELSE BASE_URL
    /\ stage' = IF HasPurchases(script) THEN "purchases" ELSE "groups"
    /\ colls' = <<>>
    /\ coll' = NoColl
    /\ files' = <<>>
    /\ cur' = NoRecord
    /\ conn' = {}
    /\ att' = NoAttempt
    /\ synced' = [id \in DOMAIN synced \cup
                          {i \in FileIds : outcome[i] = "Downloaded"
                                              /\ Exists(FinalOf(script, i))}
                    |-> IF outcome[id] = "Downloaded" /\ Exists(FinalOf(script, id))
                        THEN fs[FinalOf(script, id)] ELSE synced[id]]
    /\ outcome' = [id \in FileIds |-> "none"]
    /\ reqs' = [id \in FileIds |-> <<>>]
    /\ wrote' = {}
    /\ listed' = [c \in CollIds |-> "none"]
    /\ cause' = None
    /\ reply' = NoReply
    /\ session' = NewSession
    /\ sent' = {}
    /\ logins' = 0
    /\ files_downloaded_count' = 0
    /\ misread' = {}
    /\ UNCHANGED <<script, world, fs, cutoff, unit>>

\* the status the process ends with.  main returning, or falling off its
\* end, is status 0, also after the "return" of the Windows script on a
\* failed probe or login; sys.exit(1), "return 1" under sys.exit(main()),
\* SystemExit with a message and an uncaught exception are status 1
ExitStatus(s, end) ==
    CASE end = "done" -> 0
      [] end = "fatal" /\ s = WIN -> 0
      [] OTHER -> 1

\* ---------------------------------------------- the worlds off the standard

\* another process creates the final path of the record being fetched,
\* after the fetch has found it absent and before the rename
other_process_creates ==
    /\ world = "race"
    /\ pc \in {"cdn_open", "cdn_stream", "origin", "origin_open", "origin_stream"}
    /\ ~att.raced
    /\ ~Exists(CurFinal)
    /\ fs' = [q \in DOMAIN fs \cup {CurFinal} |->
               IF q = CurFinal THEN <<<<"other", "other", 1>>>> ELSE fs[q]]
    /\ att' = [att EXCEPT !.raced = TRUE]
    /\ UNCHANGED <<script, world, cutoff, unit, run, pc, resolver, orch, conn, hist, cause>>
    /\ UNCHANGED wire

\* a second run of the same script (another cron invocation) fetches the
\* record this run is fetching: the same code on the same paths, with a file
\* offset of its own.  It opens the temporary file after it has found the
\* final path absent, writes its chunks at its offset (what a truncation by
\* this run has cut off before that offset reads as a hole), and renames, or
\* its stream breaks and it cleans up as the script does.  It takes its steps
\* while this run is not inside its own stream loop
other_run ==
    /\ world = "overlap"
    /\ att.id # None
    /\ pc \notin {"cdn_open", "cdn_stream", "origin_stream"}
    /\ LET id == att.id
           final == FinalOf(script, id)
           temp == TempPath(script, final)
       IN  \/ /\ att.peer = "idle"
              /\ cur # NoRecord
              /\ ~Exists(final)
              /\ fs' = Truncate(fs, temp)
              /\ att' = [att EXCEPT !.peer = "open", !.peer_at = 0]
           \/ /\ att.peer = "open" /\ att.peer_at < NChunks
              /\ fs' = IF Exists(temp)
                       THEN [fs EXCEPT ![temp] =
                               [i \in 1..(IF Len(@) > att.peer_at THEN Len(@) ELSE att.peer_at + 1) |->
                                  IF i = att.peer_at + 1 THEN <<id, "origin", i>>
                                  ELSE IF i <= Len(@) THEN @[i]
                                  ELSE <<id, "hole", i>>]]
                       ELSE fs
              /\ att' = [att EXCEPT !.peer_at = @ + 1]
           \/ /\ att.peer = "open" /\ att.peer_at = NChunks
              /\ fs' = IF Exists(temp) THEN Finalize(script, fs, temp, final) ELSE fs
              /\ att' = [att EXCEPT !.peer = "over"]
           \/ /\ att.peer = "open" /\ att.peer_at < NChunks
              /\ fs' = IF OnOriginError(script) = "failed_cleanup" /\ Exists(temp)
                       THEN Remove(fs, temp) ELSE fs
              /\ att' = [att EXCEPT !.peer = "over"]
    /\ UNCHANGED <<script, world, cutoff, unit, run, pc, resolver, orch, conn, hist, cause>>
    /\ UNCHANGED wire

\* each world with the scripts run in it
EdgeCases ==
    ({"twins"} \X {DISC, PY, WIN, DAILY})
        \cup ({"suffix"} \X {LINUX, DISC, GROUPS})
        \cup ({"nameless"} \X {LINUX, DISC})
        \cup ({"race"} \X {DISC, PY, GROUPS})
        \cup ({"error_body"} \X {LINUX, DISC, GROUPS})
        \cup ({"overlap"} \X {DISC, GROUPS})

InitEdge ==
    /\ \E e \in EdgeCases : world = e[1] /\ script = e[2]
    /\ InitRun
    /\ unit = NoUnit

\* ------------------------------------------------- the sanitizers alone

InitNames ==
    /\ script \in Scripts
    /\ world = "standard"
    /\ InitRun
    /\ unit \in {[input |-> n, output |-> <<>>, done |-> FALSE] : n \in NameInputs}

Sanitized(output) == unit' = [unit EXCEPT !.output = output, !.done = TRUE]

\* download_allfiles_linux_discovery.py names a file or a folder
apply_sanitize_filename ==
    /\ script = DISC
    /\ ~unit.done
    /\ Sanitized(sanitize_filename(unit.input))
    /\ UNCHANGED <<script, world, run, pc, resolver, orch, fs, net, hist, cause, wire, cutoff>>

\* download_all_python.py names a file or a folder
apply_sanitize_file_or_folder_name ==
    /\ script = PY
    /\ ~unit.done
    /\ Sanitized(sanitize_file_or_folder_name(unit.input))
    /\ UNCHANGED <<script, world, run, pc, resolver, orch, fs, net, hist, cause, wire, cutoff>>

\* download_all_linux.py, download_groups_linux.py and the eodLevel2 script of
\* fortier name a file or a folder
apply_safe_name ==
    /\ script \in {LINUX, GROUPS, FORTIER}
    /\ ~unit.done
    /\ Sanitized(safe_name(unit.input))
    /\ UNCHANGED <<script, world, run, pc, resolver, orch, fs, net, hist, cause, wire, cutoff>>

NextNames ==
    \/ apply_sanitize_filename
    \/ apply_sanitize_file_or_folder_name
    \/ apply_safe_name

SpecNames == InitNames /\ [][NextNames]_vars

\* ------------------------------------------------- unique_path alone

\* the largest number a file on the disk is suffixed with
MaxSuffix == 4

\* download_all_python.py is about to call unique_path on out/<name>, a name
\* with or without an extension, with a leading dot, with dots only before
\* the last one, or ending in a dot; the directory holds any of the path
\* itself and its numbered variants
InitUnique ==
    /\ script = PY
    /\ world = "plain"
    /\ run = 1
    /\ pc = "fetch"
    /\ endpoints = <<>>
    /\ probed = <<>>
    /\ base_url = BASE_URL
    /\ stage = "groups"
    /\ colls = <<>>
    /\ coll = NoColl
    /\ files = <<>>
    /\ cur = NoRecord
    /\ conn = {}
    /\ att = NoAttempt
    /\ outcome = [id \in FileIds |-> "none"]
    /\ reqs = [id \in FileIds |-> <<>>]
    /\ wrote = {}
    /\ listed = [c \in CollIds |-> "none"]
    /\ synced = <<>>
    /\ cause = None
    /\ reply = NoReply
    /\ session = NewSession
    /\ sent = {}
    /\ logins = 0
    /\ cutoff = NoCutoff
    /\ files_downloaded_count = 0
    /\ misread = {}
    /\ \E n \in {<<"t">>, <<"t", ".", "a">>, <<".", "t">>, <<".", ".", "a">>, <<"t", ".">>} :
         /\ unit = [input |-> n, output |-> <<>>, done |-> FALSE]
         /\ \E taken \in SUBSET ({<<"out", n>>}
                                   \cup {Numbered(<<"out", n>>, i) : i \in 2..MaxSuffix}) :
              fs = [q \in taken |-> <<>>]

\* unique_path(out_path)
apply_unique_path ==
    /\ ~unit.done
    /\ unit' = [unit EXCEPT !.output = unique_path(fs, <<"out", unit.input>>)[2],
                            !.done = TRUE]
    /\ UNCHANGED <<script, world, run, pc, resolver, orch, fs, net, hist, cause, wire, cutoff>>

SpecUnique == InitUnique /\ [][apply_unique_path]_vars

\* ------------------------------------------------------------------- runs

Next ==
    \/ get_api_endpoints
    \/ find_working_api_probe
    \/ find_working_api_none
    \/ login_to_api
    \/ list_purchases
    \/ list_groups
    \/ list_files
    \/ collections_done
    \/ next_file
    \/ files_done
    \/ fetch_skip
    \/ cdn_get
    \/ cdn_open
    \/ cdn_chunk
    \/ cdn_exception
    \/ cdn_finalize
    \/ origin_no_identifier
    \/ origin_get
    \/ origin_open
    \/ origin_chunk
    \/ origin_exception
    \/ origin_finalize
    \/ restart

Spec == Init /\ [][Next]_vars

\* the runs of the discovery script.  The script is sequential and every
\* call it makes returns or times out: a run that can take a step takes one
InitLive == Init /\ HasDiscovery(script)

SpecLive ==
    /\ InitLive
    /\ [][Next]_vars
    /\ WF_vars(Next /\ run' = run)

NextEdge == Next \/ other_process_creates \/ other_run

SpecEdge == InitEdge /\ [][NextEdge]_vars

TypeOK ==
    /\ script \in AllScripts
    /\ world \in Worlds
    /\ run \in 1..MaxRuns
    /\ conn \subseteq {"cdn", "origin"}
    /\ \A id \in FileIds : outcome[id] \in {"none", "Skipped", "Downloaded", "Failed"}

\* ------------------------------------------------------------- properties

ScriptsWithCdn == {s \in Scripts : UsesCdn(s)}
TempOf(s, id) == TempPath(s, FinalOf(s, id))
Complete(id, content) == content \in {Body(id, "cdn"), Body(id, "origin")}
FetchOver(id) == outcome[id] # "none"

\* C1: a fetch that finds the final path on disk when it starts is Skipped,
\* and for that record no CDN or origin request is issued and no file is
\* written: while such a fetch runs it is still at its existence check, and
\* once it is over its outcome is Skipped.
C1_ExistingFileIsSkipped ==
    /\ att.existed =>
         /\ reqs[att.id] = <<>>
         /\ att.id \notin wrote
         /\ att.cdn = "none" /\ att.origin = "none" /\ conn = {}
         /\ IF cur = NoRecord THEN outcome[att.id] = "Skipped"
            ELSE pc = "fetch" /\ outcome[att.id] = "none"
    /\ \A id \in FileIds :
         outcome[id] = "Skipped" => reqs[id] = <<>> /\ id \notin wrote

C1_Witness ==
    /\ att.existed
    /\ cur = NoRecord
    /\ outcome[att.id] = "Skipped"
    /\ RecordOf(att.id).cloud_share_link # None

\* C2: a record an earlier run Downloaded is Skipped by the next run (it is
\* never Downloaded or Failed again), and the bytes at its final path stay
\* the bytes the first run put there.
C2_SecondFetchSkipsSameBytes ==
    \A id \in DOMAIN synced :
      /\ outcome[id] \in {"none", "Skipped"}
      /\ Exists(FinalOf(script, id))
      /\ fs[FinalOf(script, id)] = synced[id]
      /\ Complete(id, synced[id])

C2_Witness ==
    \E id \in DOMAIN synced : run = 2 /\ outcome[id] = "Skipped"

\* C3 (the claim as stated): at every point of a fetch the final path of a
\* record is absent or holds a complete body; partial bytes are at the
\* temporary path only.
C3_FinalPathNeverPartial ==
    \A id \in FileIds :
      Exists(FinalOf(script, id)) => Complete(id, fs[FinalOf(script, id)])

\* C4: when the CDN request of a record fails (non-200, or an exception) and
\* the origin then serves the body, the outcome is Downloaded and the final
\* path holds exactly the origin body.
C4_FallbackBodyIsOrigin ==
    /\ att.cdn \in Failures /\ att.origin = "ok" =>
         /\ outcome[att.id] = "Downloaded"
         /\ Exists(FinalOf(script, att.id))
         /\ fs[FinalOf(script, att.id)] = Body(att.id, "origin")
    /\ \A id \in FileIds :
         reqs[id] = <<"cdn", "origin">> /\ outcome[id] = "Downloaded" =>
           /\ Exists(FinalOf(script, id))
           /\ fs[FinalOf(script, id)] = Body(id, "origin")

C4_Witness ==
    /\ att.cdn = "non200"
    /\ att.origin = "ok"
    /\ outcome[att.id] = "Downloaded"

\* C5: a CDN attempt that ended in a non-200 or an exception, for a record
\* with a uuid_filename, is followed by the origin request: the fetch is at
\* the fallback, where the origin request is the step to take, or the
\* request has been issued; the fetch never fails, and the run never ends,
\* on the CDN failure alone.
C5_CdnFailureFallsBack ==
    /\ (att.cdn \in Failures /\ RecordOf(att.id).uuid_filename # None) =>
         \/ pc = "origin" /\ cur.id = att.id /\ att.origin = "none"
                /\ outcome[att.id] = "none" /\ ENABLED origin_get
         \/ att.origin # "none" /\ reqs[att.id] = <<"cdn", "origin">>
    /\ \A id \in FileIds :
         (outcome[id] = "Failed" /\ RecordOf(id).uuid_filename # None) =>
           "origin" \in {reqs[id][i] : i \in 1..Len(reqs[id])}
    /\ (Ended /\ cause = "fetch") => att.origin \in Failures

C5_Witness ==
    /\ att.cdn = "exception"
    /\ att.origin = "inflight"
    /\ Exists(CurTemp)
    /\ fs[CurTemp] # <<>>

\* C6: in the scripts that have a CDN path, the two paths are primary and
\* fallback: the two responses are never open together, an origin request
\* for a record with a cloud_share_link comes only after that record's CDN
\* attempt has failed, and a record whose CDN attempt succeeded gets no
\* origin request.
C6_PrimaryThenFallback ==
    /\ Cardinality(conn) <= 1
    /\ script \in ScriptsWithCdn =>
         /\ att.origin # "none" =>
              \/ RecordOf(att.id).cloud_share_link = None /\ att.cdn = "none"
              \/ att.cdn \in Failures
         /\ att.cdn \in {"inflight", "ok"} => att.origin = "none"
         /\ \A id \in FileIds :
              /\ reqs[id] \in {<<>>, <<"cdn">>, <<"origin">>, <<"cdn", "origin">>}
              /\ reqs[id] = <<"origin">> => RecordOf(id).cloud_share_link = None
              /\ (outcome[id] = "Downloaded" /\ Exists(FinalOf(script, id))
                    /\ fs[FinalOf(script, id)] = Body(id, "cdn"))
                   => reqs[id] = <<"cdn">>

C6_Witness ==
    /\ script = LINUX
    /\ att.cdn = "exception"
    /\ att.origin = "inflight"
    /\ conn = {"origin"}

\* C7 (the claim as stated): when a fetch has failed, its temporary file is
\* gone.
C7_NoTempAfterFailure ==
    \A id \in FileIds :
      outcome[id] = "Failed" => ~Exists(TempOf(script, id))

\* C8 (the claim as stated): the failure of one record's fetch never ends
\* the run; when the run is over, every record of every collection whose
\* listing was read has been passed to fetch.
C8_FetchFailureNeverEndsRun ==
    /\ ~(Ended /\ cause = "fetch")
    /\ Ended =>
         \A c \in Collections :
           listed[c.id] = "ok" /\ (\E id \in FileIds : outcome[id] = "Failed") =>
             \A i \in 1..Len(RemoteFiles(c.id)) :
               \/ SkippedByLoop(script, RemoteFiles(c.id)[i])
               \/ FetchOver(RemoteFiles(c.id)[i].id)

\* C9 (the claim as stated): a failed file listing of one collection never
\* ends the run: the run goes on to the other collections.
C9_ListingFailureNeverEndsRun ==
    ~(Ended /\ cause = "files_listing" /\ \E c \in CollIds : listed[c] = "failed")

\* C10: find_working_api probes the endpoints in list order; every probe
\* before the last one failed, and the endpoint it returns is the one whose
\* probe, the last made, was healthy.
C10_FirstHealthyInOrder ==
    HasDiscovery(script) =>
      /\ Len(probed) <= Len(endpoints)
      /\ \A i \in 1..Len(probed) :
           /\ probed[i].url = endpoints[i]
           /\ probed[i].healthy => i = Len(probed) /\ base_url = probed[i].url
      /\ base_url # None =>
           /\ probed # <<>>
           /\ probed[Len(probed)].healthy
           /\ base_url = endpoints[Len(probed)]

C10_Witness ==
    /\ Len(probed) = 2
    /\ ~probed[1].healthy
    /\ probed[2].healthy
    /\ base_url = endpoints[2]
    /\ pc = "login"

AllProbesFailed ==
    /\ Len(probed) = Len(endpoints)
    /\ \A i \in 1..Len(probed) : ~probed[i].healthy
ResolverDone == pc \notin {"discover", "probe"}
SentTo(kinds) == {r \in sent : r.to \in kinds}
ListingOrDownload == {"purchases", "groups", "files", "download", "cdn"}
OriginCalls == {"purchases", "groups", "files", "download"}

\* C11: find_working_api returns None exactly when every endpoint of the
\* list failed its probe (every probe result other than a 200 with status
\* "healthy" is a failure), and then the run ends without any login, listing
\* or download request.
C11_NoneWhenEveryProbeFails ==
    HasDiscovery(script) =>
      /\ \A result \in HealthResults \ {"healthy"} : ~IsHealthy(result)
      /\ reply.to = "health" =>
           (probed[Len(probed)].healthy <=> reply.status = "healthy")
      /\ cause = "no_endpoint" <=> (ResolverDone /\ AllProbesFailed)
      /\ (ResolverDone /\ ~AllProbesFailed) => base_url = probed[Len(probed)].url
      /\ cause = "no_endpoint" =>
           /\ pc = "fatal"
           /\ base_url = None
           /\ logins = 0
           /\ SentTo({"login"} \cup ListingOrDownload) = {}
           /\ \A id \in FileIds : reqs[id] = <<>>

C11_Witness ==
    /\ cause = "no_endpoint"
    /\ Len(probed) = 2
    /\ reply.to = "health"
    /\ reply.status = "other_status"

\* C12: after any failure of the discovery request (non-200, malformed body,
\* network error, timeout) get_api_endpoints returns the hardcoded fallback
\* list, and that list is not empty.
C12_FallbackOnDiscoveryFailure ==
    /\ Len(FALLBACK_ENDPOINTS) >= 1
    /\ (reply.to = "discovery" /\ reply.status \in DiscoveryFailures) =>
         /\ endpoints = FALLBACK_ENDPOINTS
         /\ endpoints # <<>>
         /\ pc = "probe"

C12_Witness ==
    /\ reply.to = "discovery"
    /\ reply.status = "bad_json"
    /\ endpoints = FALLBACK_ENDPOINTS
    /\ pc = "probe"

HasPriority(e) == "priority" \in DOMAIN e
\* the entry of the document a returned url comes from
EntryOf(doc, url) == doc[CHOOSE i \in 1..Len(doc) : doc[i].url = url]

\* C13 (the claim as stated): the list returned for a discovery document is
\* in ascending order of priority, and no entry without a priority comes
\* before an entry that has one.
C13_MissingPrioritySortsLast ==
    (reply.to = "discovery" /\ reply.status = "status200") =>
      /\ Len(endpoints) = Len(reply.doc)
      /\ \A j, k \in 1..Len(endpoints) :
           j < k =>
             LET ej == EntryOf(reply.doc, endpoints[j])
                 ek == EntryOf(reply.doc, endpoints[k])
             IN  /\ (HasPriority(ej) /\ HasPriority(ek)) => ej.priority <= ek.priority
                 /\ ~(~HasPriority(ej) /\ HasPriority(ek))

\* C14: login is attempted at most once in a run, and every failure of it
\* (401, another non-200, a network error, a 200 without a token) ends the
\* run: no listing and no download request is issued after it.
C14_LoginFailureIsTerminal ==
    /\ logins <= 1
    /\ Cardinality(SentTo({"login"})) <= 1
    /\ (reply.to = "login" /\ reply.status # "token") =>
         /\ pc \in {"fatal", "crashed"}
         /\ cause = "login"
         /\ session.auth = None
         /\ SentTo(ListingOrDownload) = {}
         /\ \A id \in FileIds : reqs[id] = <<>>
    /\ SentTo(ListingOrDownload) # {} =>
         logins = 1 /\ reply.to = "login" /\ reply.status = "token"

C14_Witness ==
    /\ reply.to = "login"
    /\ reply.status = "no_token"
    /\ logins = 1
    /\ Ended

\* C15 (the claim as stated): no request to a cloud_share_link carries the
\* bearer token or the custom User-Agent.
C15_CdnRequestsCarryNoSessionHeaders ==
    \A r \in SentTo({"cdn"}) : r.auth = None /\ r.ua # USER_AGENT

\* C16: every origin request after the login (the listings and the download
\* by id) carries the bearer token the login returned and the custom
\* User-Agent, and the session's token stays that one for the rest of the run.
C16_OriginRequestsCarrySession ==
    /\ \A r \in SentTo(OriginCalls) :
         r.auth = Tokens[1] /\ r.ua = USER_AGENT
    /\ session.ua = USER_AGENT
    /\ session.auth = IF reply.to = "login" /\ reply.status = "token"
                      THEN Tokens[1] ELSE None
    /\ SentTo(OriginCalls) # {} => session.auth = Tokens[1]

C16_Witness ==
    /\ script = DISC
    /\ Cardinality(SentTo(OriginCalls)) = 4
    /\ \A r \in SentTo(OriginCalls) : r.auth = Tokens[1] /\ r.ua = USER_AGENT
    /\ pc = "done"

\* what the recency filter is to let through: everything without a cutoff,
\* else the records whose created_at parses and is at or after the cutoff
PassesCutoff(cut, rec) ==
    \/ cut = NoCutoff
    \/ /\ strptime(rec.created_at) # BadStamp
       /\ DatetimeGE(strptime(rec.created_at), cut)
PassedToFetch(id) == outcome[id] # "none" \/ cur.id = id

\* C17 (the claim as stated): the records the recency filter lets through to
\* fetch are exactly those whose created_at, parsed as 'YYYY-MM-DD HH:MM:SS',
\* is at or after the cutoff (the cutoff itself included); without a cutoff
\* every record passes.
C17_RecencyFilterExact ==
    HasRecency(script) =>
      /\ \A id \in FileIds :
           PassedToFetch(id) => PassesCutoff(cutoff, RecordOf(id))
      /\ pc = "done" =>
           \A id \in FileIds :
             (/\ listed[RecordColl(id).id] = "ok"
              /\ RecordOf(id).uuid_filename # None
              /\ PassesCutoff(cutoff, RecordOf(id)))
               => outcome[id] # "none"

\* C18 (the claim as stated): with a cutoff, a record whose created_at does
\* not parse is left out: it is never passed to fetch.
C18_UnparsableIsExcluded ==
    (HasRecency(script) /\ cutoff # NoCutoff) =>
      \A id \in FileIds :
        strptime(RecordOf(id).created_at) = BadStamp =>
          ~PassedToFetch(id) /\ reqs[id] = <<>>

\* C19 (the claim as stated): for every input name the sanitizer returns a
\* name that is not empty and holds none of < > : " / \ | ? *.
C19_SanitizedNameIsClean ==
    unit.done =>
      /\ unit.output # <<>>
      /\ \A i \in 1..Len(unit.output) : unit.output[i] \notin BadChars

\* C20 (the claim as stated): for every input name the sanitizer's result
\* does not end with a dot or a space and is no longer than the cap of 150
\* characters.
C20_SanitizedNameIsTrimmedAndCapped ==
    (unit.done /\ unit.output # <<>>) =>
      /\ unit.output[Len(unit.output)] \notin {".", " "}
      /\ Len(unit.output) <= MaxNameLen

\* C30: while the healthy endpoint is selected no endpoint is probed twice
\* (a failed one is not retried), and none is probed after the selected one:
\* the probes are distinct endpoints and the healthy probe is the last.
C30_EachEndpointProbedOnce ==
    HasDiscovery(script) =>
      /\ \A i, j \in 1..Len(probed) : i # j => probed[i].url # probed[j].url
      /\ \A i \in 1..Len(probed) : probed[i].healthy => i = Len(probed)
      /\ Len(probed) <= Len(endpoints)

\* the first of two endpoints was selected and the run went on to its end
\* without a probe of the second
C30_Witness ==
    /\ HasDiscovery(script)
    /\ Len(endpoints) = 2
    /\ Len(probed) = 1
    /\ probed[1].healthy
    /\ pc = "done"

\* C24 (the claim as stated): for every record that survives the filter, has
\* a cloud_share_link and whose final path does not exist, the first request
\* made for it is the CDN request, with or without a uuid_filename: no origin
\* request comes before it, and by the end of the run it has been made.
C24_CdnRequestComesFirst ==
    \A id \in FileIds :
      RecordOf(id).cloud_share_link # None =>
        /\ reqs[id] # <<>> => reqs[id][1] = "cdn"
        /\ (/\ pc = "done"
            /\ listed[RecordColl(id).id] = "ok"
            /\ PassesCutoff(cutoff, RecordOf(id))
            /\ outcome[id] # "Skipped")
             => reqs[id] # <<>>

\* C21 (the claim as stated): two records of one collection that share a
\* display name do not collide: at the end of a run that served both (each
\* Downloaded or Skipped, none Failed) the body of each is on disk, under a
\* path of its own.
C21_SameNameRecordsDoNotCollide ==
    \A a, b \in FileIds :
      (/\ a # b
       /\ RecordColl(a) = RecordColl(b)
       /\ RecordOf(a).display_name = RecordOf(b).display_name
       /\ pc = "done"
       /\ outcome[a] \in {"Downloaded", "Skipped"}
       /\ outcome[b] \in {"Downloaded", "Skipped"})
        => \E pa, pb \in DOMAIN fs :
             pa # pb /\ Complete(a, fs[pa]) /\ Complete(b, fs[pb])

\* C22 (the claim as stated): the temporary path of a record is the final
\* path of no other record of the same directory, so the file another
\* record's fetch put at its final path in this run stays there, whole,
\* while this record is streamed, renamed or cleaned up.
C22_TempPathIsNoFinalPath ==
    \A id \in FileIds :
      (/\ cur # NoRecord
       /\ id # cur.id
       /\ FinalOf(script, id)[1] = CurFinal[1]
       /\ outcome[id] = "Downloaded")
        => /\ Exists(FinalOf(script, id))
           /\ Complete(id, fs[FinalOf(script, id)])

\* C23 (the claim as stated): for a record without a uuid_filename whose
\* CDN path is not there or has failed, no origin request is made, no final
\* file is created, the fetch ends as Failed and the run goes on with the
\* next record: it does not end on that record.
C23_NoIdentifierFailsTheRecordOnly ==
    \A id \in FileIds :
      RecordOf(id).uuid_filename = None =>
        /\ \A i \in 1..Len(reqs[id]) : reqs[id][i] # "origin"
        /\ outcome[id] = "Downloaded" => reqs[id] = <<"cdn">>
        /\ (/\ att.id = id
            /\ ~att.existed
            /\ att.cdn \notin {"inflight", "ok"}
            /\ cur = NoRecord) =>
             outcome[id] = "Failed" /\ ~Exists(FinalOf(script, id))
        /\ ~(Ended /\ cause = "key_error")

\* C25 (the claim as stated): when another process creates the final path
\* after the existence check and before the rename, the fetch still ends
\* Downloaded, the final path then holds the complete body of this fetch
\* (the last writer wins) and the temporary file is gone.
C25_LastWriterWins ==
    (att.raced /\ cur = NoRecord /\ att.id # None) =>
      /\ outcome[att.id] = "Downloaded" =>
           /\ Exists(FinalOf(script, att.id))
           /\ Complete(att.id, fs[FinalOf(script, att.id)])
           /\ ~Exists(TempOf(script, att.id))
      /\ (att.cdn = "ok" \/ att.origin = "ok") => outcome[att.id] = "Downloaded"

\* C26 (the claim as stated): a run that ends on a fatal error -- no healthy
\* endpoint, or a failed login -- ends with an exit status other than 0.
C26_FatalErrorExitsNonZero ==
    (Ended /\ cause \in {"no_endpoint", "login"}) => ExitStatus(script, pc) # 0

\* C27 (the claim as stated): a run whose only errors are recoverable -- a
\* failed fetch, a failed files listing of one collection, a created_at that
\* does not parse -- ends with the exit status of a run without errors, 0.
C27_RecoverableKeepsExitStatus ==
    (Ended /\ cause \in {None, "fetch", "files_listing"}) => ExitStatus(script, pc) = 0

\* C28 (the claim as stated): the count reported at the end of a run is the
\* number of records whose final file was written in this run; records
\* Skipped or Failed are not in it.
C28_TallyCountsNewFiles ==
    (script = DAILY /\ pc = "done") =>
      files_downloaded_count = Cardinality({id \in FileIds : outcome[id] = "Downloaded"})

\* C29 (the claim as stated): a files listing answered with a status other
\* than 200 is a listing error of its collection whatever its body: it is
\* never read as a listing, with records or empty.
C29_Non200ListingIsAnError ==
    \A c \in CollIds : c \notin misread

\* C31: the stages of a run come in the order resolve, select, login, list,
\* fetch: a health probe is sent only after the discovery request, a login
\* only once an endpoint has been selected as healthy, a listing only after
\* the login has returned a token, and a download request for a record only
\* after the files listing of its collection has been read.
C31_StagesInOrder ==
    /\ HasDiscovery(script) =>
         /\ SentTo({"health"}) # {} => SentTo({"discovery"}) # {} /\ endpoints # <<>>
         /\ SentTo({"login"}) # {} =>
              /\ base_url # None
              /\ probed # <<>> /\ probed[Len(probed)].healthy
              /\ base_url = probed[Len(probed)].url
    /\ SentTo({"purchases", "groups", "files"}) # {} =>
         /\ SentTo({"login"}) # {}
         /\ reply.to = "login" /\ reply.status = "token"
         /\ session.auth = Tokens[1]
    /\ \A id \in FileIds :
         (reqs[id] # <<>> \/ PassedToFetch(id)) =>
           /\ listed[RecordColl(id).id] = "ok"
           /\ SentTo({"files"}) # {}
    /\ SentTo({"cdn", "download"}) # {} => \E id \in FileIds : reqs[id] # <<>>

\* the second endpoint was selected, and a record of a group was downloaded
\* from the origin
C31_Witness ==
    /\ script = DISC
    /\ Len(probed) = 2
    /\ outcome["fC"] = "Downloaded"
    /\ reqs["fC"] = <<"origin">>
    /\ pc = "done"

\* C32: unique_path(path) returns path itself when it does not exist;
\* otherwise it returns 'base (i)ext' for the smallest i >= 2 whose candidate
\* does not exist; in both cases the returned path is not on the disk.
C32_UniquePathIsFirstFree ==
    unit.done =>
      LET path == <<"out", unit.input>>
          result == <<"out", unit.output>>
      IN  /\ ~Exists(result)
          /\ ~Exists(path) => result = path
          /\ Exists(path) =>
               \E i \in 2..(MaxSuffix + 1) :
                 /\ result = Numbered(path, i)
                 /\ result[2] = SplitBase(unit.input) \o <<" (", ToString(i), ")">>
                                  \o SplitExt(unit.input)
                 /\ \A j \in 2..(i - 1) : Exists(Numbered(path, j))

\* "t.a", "t (2).a" and "t (3).a" are on the disk, "t (4).a" is returned
C32_Witness ==
    /\ unit.done
    /\ unit.input = <<"t", ".", "a">>
    /\ Exists(<<"out", <<"t", ".", "a">>>>)
    /\ Exists(<<"out", <<"t", " (", "2", ")", ".", "a">>>>)
    /\ Exists(<<"out", <<"t", " (", "3", ")", ".", "a">>>>)
    /\ unit.output = <<"t", " (", "4", ")", ".", "a">>

\* C33 (the claim as stated): get_api_endpoints never returns an empty list,
\* whatever the discovery service answers, so find_working_api always has an
\* endpoint to probe: it never gives up without a probe.
C33_ResolveNeverEmpty ==
    (HasDiscovery(script) /\ pc # "discover") =>
      /\ endpoints # <<>>
      /\ cause = "no_endpoint" => probed # <<>>

\* C34: in download_all_linux.py and download_all_python.py a final file is
\* the complete body of one response, the CDN's or the origin's: while the
\* origin body is streamed the temporary file holds origin bytes only, and
\* when the CDN stream broke after it had written chunks and the fallback
\* then succeeded, the final file is exactly the origin body.
C34_FinalIsOneWholeBody ==
    script \in {LINUX, PY} =>
      /\ \A id \in FileIds :
           Exists(FinalOf(script, id)) => Complete(id, fs[FinalOf(script, id)])
      /\ pc = "origin_stream" =>
           \A i \in 1..Len(fs[CurTemp]) : fs[CurTemp][i] = <<cur.id, "origin", i>>
      /\ (att.left > 0 /\ att.origin = "ok") =>
           /\ outcome[att.id] = "Downloaded"
           /\ Exists(FinalOf(script, att.id))
           /\ fs[FinalOf(script, att.id)] = Body(att.id, "origin")

\* the CDN stream of a record broke after its first chunk and the origin
\* then served the whole body
C34_Witness ==
    /\ script = PY
    /\ att.cdn = "exception"
    /\ att.left > 0
    /\ att.origin = "ok"
    /\ outcome[att.id] = "Downloaded"
    /\ fs[FinalOf(script, att.id)] = Body(att.id, "origin")

\* during a fetch no file of the output tree other than the final and the
\* temporary path of the record being fetched is created, changed or removed
C35_Frame ==
    cur # NoRecord =>
      /\ \A q \in DOMAIN fs \ {CurFinal, CurTemp} : q \in DOMAIN fs' /\ fs'[q] = fs[q]
      /\ \A q \in DOMAIN fs' \ {CurFinal, CurTemp} : q \in DOMAIN fs

C35_FailedHasNoFinal ==
    /\ \A id \in FileIds : outcome[id] = "Failed" => ~Exists(FinalOf(script, id))
    /\ \A id \in FileIds : outcome[id] = "Skipped" => id \in DOMAIN synced

\* C35 (the claim as stated): a fetch whose outcome is Failed leaves the
\* final path absent and every other file of the destination directory as it
\* was, so a later run does not skip the record (only records an earlier run
\* Downloaded are Skipped) but attempts it again.
C35_FailedFetchLeavesNoFile ==
    /\ [](script \in {DISC, EOD, GROUPS} => C35_FailedHasNoFinal)
    /\ [][(script \in {DISC, EOD, GROUPS}) => C35_Frame]_vars

\* while the second run is writing the temporary file, a step of this run
\* neither removes nor truncates it: the file stays and keeps what it held
C36_TempLeftAlone ==
    (att.peer = "open" /\ att.peer_at < NChunks /\ att' = att
       /\ Exists(TempOf(script, att.id))) =>
      /\ TempOf(script, att.id) \in DOMAIN fs'
      /\ Len(fs'[TempOf(script, att.id)]) >= Len(fs[TempOf(script, att.id)])
      /\ \A i \in 1..Len(fs[TempOf(script, att.id)]) :
           fs'[TempOf(script, att.id)][i] = fs[TempOf(script, att.id)][i]

\* C36 (the claim as stated): when two runs overlap on one output directory
\* and fetch the same record, every final file holds one complete response
\* body, and neither run removes or truncates the temporary file the other
\* run is still writing.
C36_OverlappingRunsAreSafe ==
    /\ [](world = "overlap" =>
            \A id \in FileIds :
              Exists(FinalOf(script, id)) => Complete(id, fs[FinalOf(script, id)]))
    /\ [][C36_TempLeftAlone]_vars

\* C37: every API request of a run after the endpoint selection (login, list
\* groups, list purchases, list files, download by id) is sent to the base
\* URL of the one endpoint find_working_api returned, which stays the run's
\* base URL to its end; no such request goes to an endpoint whose probe
\* failed.
C37_RequestsGoToSelectedEndpoint ==
    HasDiscovery(script) =>
      /\ \A r \in SentTo({"login"} \cup OriginCalls) :
           /\ r.url = base_url
           /\ probed # <<>>
           /\ probed[Len(probed)].healthy
           /\ r.url = probed[Len(probed)].url
           /\ \A i \in 1..Len(probed) : ~probed[i].healthy => r.url # probed[i].url
      /\ \A r \in SentTo({"health"}) : \E i \in 1..Len(probed) : probed[i].url = r.url
      /\ (ResolverDone /\ cause # "no_endpoint") =>
           base_url # None /\ base_url = probed[Len(probed)].url

\* the first endpoint failed its probe; the login, the three listings and
\* the downloads all went to the second
C37_Witness ==
    /\ script = DISC
    /\ pc = "done"
    /\ Len(probed) = 2
    /\ ~probed[1].healthy
    /\ base_url = FALLBACK_ENDPOINTS[2]
    /\ {r.to : r \in SentTo({"login"} \cup OriginCalls)}
         = {"login", "purchases", "groups", "files", "download"}
    /\ \A r \in SentTo({"login"} \cup OriginCalls) : r.url = FALLBACK_ENDPOINTS[2]

\* C38: a run of the discovery script always terminates.  find_working_api
\* makes at most one probe per endpoint, every record gets at most one CDN
\* request and at most one origin request, and from every point of a run
\* the run reaches its end, done or the fatal exit.
C38_RunTerminates ==
    /\ [](HasDiscovery(script) =>
            /\ Len(probed) <= Len(endpoints)
            /\ Cardinality({probed[i].url : i \in 1..Len(probed)}) = Len(probed)
            /\ \A id \in FileIds :
                 reqs[id] \in {<<>>, <<"cdn">>, <<"origin">>, <<"cdn", "origin">>}
            /\ pc # "crashed")
    /\ (HasDiscovery(script) /\ ~Ended) ~> (pc \in {"done", "fatal"})

\* a run that probed both endpoints, listed both collection types and made
\* both requests for a record has come to its end
C38_Witness ==
    /\ script = DISC
    /\ pc = "done"
    /\ Len(probed) = 2
    /\ reqs["fB"] = <<"cdn", "origin">>
    /\ outcome["fA"] # "none"
    /\ outcome["fC"] # "none"

====
